---- MODULE Spec2Model ----
(***************************************************************************)
(* Model of the angel bootstrap handshake, admin/angel/AngelInit.c.        *)
(*                                                                         *)
(* AngelInit_main is straight-line code which twice hands control to the   *)
(* event loop (InterfaceWaiter_waitForData) and finally calls Angel_start. *)
(* The program counter pc names the statement that runs next; the client   *)
(* and the core are the environment.  Callbacks (coreDied,                 *)
(* clientDisconnected) run only while the event loop runs.                 *)
(*                                                                         *)
(* heap records which allocator (alloc or its child tempAlloc) each object *)
(* of the handshake was made in, so that the release of tempAlloc before   *)
(* Angel_start can be followed; the client pipe performs a send either at  *)
(* once or when the event loop next runs.                                  *)
(*                                                                         *)
(* Strings taken from the configuration are C strings without embedded NUL *)
(* bytes and are modelled as TLA+ strings; startup arguments are modelled  *)
(* as sequences of characters because atoi() looks inside them.            *)
(***************************************************************************)
EXTENDS Integers, Sequences, FiniteSets, TLC

VARIABLES
    pc,             \* statement of AngelInit_main that runs next
    exitKind,       \* "none" | "return0" | "exit1" | "throw"
    throwSite,      \* the statement whose Except_throw ended the process, or "none"
    logKeys,        \* build option: Log_KEYS defined
    argv,           \* startup argument vector (1-based here: argv[k+1] is C's argv[k])
    clientPipe,     \* the client endpoint returned by getClientPipe, or NULL
    clientPipesMade,\* number of client endpoints ever created
    clientOnClose,  \* clientPipe->onClose: "none" or the callback installed
    clientState,    \* "connected" | "closed" : the client's end of clientPipe
    clientIn,       \* messages written by the client, not yet read by the angel
    clientNotices,  \* number of times clientDisconnected printed its notice
    closeSeen,      \* the client pipe's close event has been dispatched
    preConf,        \* message returned by the first wait, or NoMsg
    config,         \* decoded config (a dict value), or NULL
    core, bind, pass, user, corePipeName,  \* the String* locals of AngelInit_main
    namesGenerated, \* number of calls of Random_base32 for a pipe name
    corePipe,       \* the core endpoint, or NULL
    corePipeLog,    \* every endpoint ever opened toward the core
    coreOnClose,    \* corePipe->onClose: "none" or the callback installed
    spawnLog,       \* arguments and outcome of every Process_spawn call
    fopenLog,       \* path and outcome of every fopen() of the core binary
    coreState,      \* "none" | "alive" | "dead" : the peer on the core pipe
    coreIn,         \* messages written by the core, not yet read by the angel
    coreWrote,      \* every message the core ever wrote
    toCore,         \* every message handed to coreIface->send
    waitReturned,   \* what the wait on coreIface returned, or NoMsg
    coreResponse,   \* current content of the coreResponse buffer, or NoMsg
    toClient,       \* every message handed to clientPipe->iface.send
    setUserLog,     \* <<user, result>> of every Security_setUser call
    angelStarts,    \* number of calls of Angel_start
    heap,           \* live allocations: the object and the allocator it was made in
    tempAllocFrees, \* number of calls of Allocator_free(tempAlloc)
    clientWrite,    \* "none" | "pending" | "done" : the write of line 196 on the client pipe
    writeLog        \* what the client pipe wrote, and whether the message was live then

vars == <<pc, exitKind, throwSite, logKeys, argv, clientPipe, clientPipesMade,
          clientOnClose, coreOnClose, clientState,
          clientIn, clientNotices, closeSeen, preConf, config, core, bind, pass,
          user, corePipeName, namesGenerated, corePipe, corePipeLog, spawnLog,
          fopenLog, coreState, coreIn, coreWrote, toCore, waitReturned,
          coreResponse, toClient, setUserLog, angelStarts, heap, tempAllocFrees,
          clientWrite, writeLog>>

----------------------------------------------------------------------------
(* Bounds of the model.                                                    *)

\* longest startup argument, in characters
MaxArgLen == 2
\* longest reply the core writes, in bytes
MaxReplyLen == 1
\* most messages the core writes on its pipe
MaxCoreMsgs == 1

----------------------------------------------------------------------------
(* Values of the benc tree (benc/Dict.h, benc/String.h).                   *)

NULL == [t |-> "null"]
\* A Message* local holds no message or one.
NoMsg == <<>>
Msg(m) == <<m>>
BytesOf(ref) == ref[1]
StrV(s) == [t |-> "string", s |-> s]
IntV(n) == [t |-> "int", n |-> n]
DictV(d) == [t |-> "dict", d |-> d]

\* Dict_getDict: NULL for a NULL dictionary, a missing key or a non-dictionary.
Dict_getDict(dict, key) ==
    IF dict = NULL THEN NULL
    ELSE IF key \notin DOMAIN dict.d THEN NULL
    ELSE IF dict.d[key].t # "dict" THEN NULL
    ELSE dict.d[key]

\* Dict_getString: NULL for a NULL dictionary, a missing key or a non-string.
Dict_getString(dict, key) ==
    IF dict = NULL THEN NULL
    ELSE IF key \notin DOMAIN dict.d THEN NULL
    ELSE IF dict.d[key].t # "string" THEN NULL
    ELSE dict.d[key]

\* Keys in the order the writer emits them.
KeyOrder == <<"admin", "bind", "core", "corePipeName", "fromCore", "pass",
              "router", "toCore", "user", "zzz">>

RECURSIVE BencValue(_)
RECURSIVE BencEntries(_, _)
\* BencMessageWriter: one token per string or integer, d ... e around a dictionary.
BencValue(v) ==
    CASE v.t = "string" -> <<[b |-> "s", s |-> v.s]>>
      [] v.t = "int"    -> <<[b |-> "i", n |-> v.n]>>
      [] v.t = "dict"   -> <<[b |-> "d"]>> \o BencEntries(v.d, 1) \o <<[b |-> "e"]>>

BencEntries(d, i) ==
    IF i > Len(KeyOrder) THEN <<>>
    ELSE IF KeyOrder[i] \in DOMAIN d
         THEN <<[b |-> "s", s |-> KeyOrder[i]]>> \o BencValue(d[KeyOrder[i]])
                  \o BencEntries(d, i + 1)
         ELSE BencEntries(d, i + 1)

BencMessageWriter_write(dict) == BencValue(dict)

----------------------------------------------------------------------------
(* The configurations a client may send.                                   *)

CoreDescriptors == DictV([k \in {"fromCore", "toCore"} |->
                             IF k = "fromCore" THEN IntV(12) ELSE IntV(14)])

AdminChoices ==
    [ core         : {NULL, StrV("/bin/core"), CoreDescriptors},
      bind         : {NULL, StrV("127.0.0.1:11234")},
      pass         : {NULL, StrV("secret")},
      user         : {NULL, StrV("nobody")},
      corePipeName : {NULL, StrV("pn")},
      zzz          : {NULL, StrV("unrecognised")} ]

MkDict(choice) ==
    DictV([k \in {k \in DOMAIN choice : choice[k] # NULL} |-> choice[k]])

RouterDict == DictV([k \in {"zzz"} |-> StrV("other")])

Configs ==
    { DictV([k \in {"admin"} |-> MkDict(a)]) : a \in AdminChoices }
    \cup { DictV([k \in {"admin", "router"} |->
                    IF k = "admin" THEN MkDict(a) ELSE RouterDict]) :
             a \in {a \in AdminChoices : a.user = NULL
                                          /\ a.corePipeName = NULL} }
    \cup { DictV([k \in {"router"} |-> RouterDict]) }

\* A message which is not the encoding of any dictionary.
Malformed == <<[b |-> "s", s |-> "garbage"]>>

ClientMessages == { BencMessageWriter_write(c) : c \in Configs } \cup {Malformed}

\* What the reader makes of each well-formed message: the dictionary it encodes.
DecodeTable ==
    [m \in { BencMessageWriter_write(c) : c \in Configs } |->
        CHOOSE c \in Configs : BencMessageWriter_write(c) = m]

\* BencMessageReader_read: the dictionary a message encodes; NULL stands for
\* the reader's throw on a message that encodes none.
BencMessageReader_read(msg) ==
    IF msg \in DOMAIN DecodeTable THEN DecodeTable[msg] ELSE NULL

----------------------------------------------------------------------------
(* Startup arguments and the client endpoint (getClientPipe).              *)

STDIN_FILENO == 0
STDOUT_FILENO == 1

ArgChars == {"0", "3", "p"}
ArgStrings == UNION { [1..n -> ArgChars] : n \in 0..MaxArgLen }

\* argv[0] is the program, argv[1] the "angel" sub-command.
ArgvPrefix == << <<"p">>, <<"p">> >>
AllArgvs == {ArgvPrefix}
            \cup { ArgvPrefix \o <<a>> : a \in ArgStrings }
            \cup { ArgvPrefix \o <<a, b>> : a \in ArgStrings, b \in ArgStrings }

\* The vectors the handshake is explored under: none, a pipe name, a pair.
SpecArgvs == { ArgvPrefix,
               ArgvPrefix \o << <<"p">> >>,
               ArgvPrefix \o << <<"3">>, <<"3", "3">> >> }

argc(av) == Len(av)
\* C's argv[k]
Arg(av, k) == av[k + 1]

IsDigit(c) == c \in {"0", "3"}
DigitValue(c) == IF c = "3" THEN 3 ELSE 0

RECURSIVE AtoiFrom(_, _, _)
AtoiFrom(s, i, acc) ==
    IF i > Len(s) \/ ~IsDigit(s[i]) THEN acc
    ELSE AtoiFrom(s, i + 1, 10 * acc + DigitValue(s[i]))

\* atoi(): the value of the leading run of digits, 0 when there is none.
atoi(s) == AtoiFrom(s, 1, 0)

Pipe_named(name) == [kind |-> "named", name |-> name]
Pipe_forFiles(in, out) == [kind |-> "files", in |-> in, out |-> out]

\* getClientPipe with the named-pipe test dropped.
getClientPipe_NoNamed(av) ==
    LET inNo  == IF argc(av) < 4 \/ atoi(Arg(av, 2)) = 0
                 THEN STDIN_FILENO ELSE atoi(Arg(av, 2))
        outNo == IF argc(av) < 4 \/ atoi(Arg(av, 3)) = 0
                 THEN STDOUT_FILENO ELSE atoi(Arg(av, 3))
    IN  Pipe_forFiles(inNo, outNo)

getClientPipe(av) ==
    LET inFromClientNo == IF argc(av) < 4 \/ atoi(Arg(av, 2)) = 0
                          THEN STDIN_FILENO ELSE atoi(Arg(av, 2))
        outToClientNo  == IF argc(av) < 4 \/ atoi(Arg(av, 3)) = 0
                          THEN STDOUT_FILENO ELSE atoi(Arg(av, 3))
    IN  IF argc(av) > 2 /\ inFromClientNo = STDIN_FILENO
        THEN Pipe_named(Arg(av, 2))
        ELSE Pipe_forFiles(inFromClientNo, outToClientNo)

----------------------------------------------------------------------------
(* Helpers of AngelInit_main.                                              *)

Security_setUser_PERMISSION == -1
SetUserResults == {0, Security_setUser_PERMISSION, 1, -2}

\* Names Random_base32 may produce.
GenNames == {"g1", "g2"}

Bytes == {0, 65}
Replies == UNION { [1..n -> Bytes] : n \in 0..MaxReplyLen }

\* Statements during which the event loop runs.
LoopPcs == {"waitClient", "waitCore", "angelRunning"}

\* Log_KEYS block without the restore of the last character.
LogKeysBlock_NoRestore(m) ==
    IF Len(m) = 0 THEN m ELSE [m EXCEPT ![Len(m)] = 0]

\* The Log_KEYS block: the last byte is saved, zeroed for printing, restored.
\* For a message of length 0 the byte saved and restored is bytes[-1], which
\* lies in the buffer's padding and is no part of the message.
LogKeysBlock(m) ==
    IF Len(m) = 0 THEN m
    ELSE LET lastChar == m[Len(m)]
             zeroed   == [m EXCEPT ![Len(m)] = 0]
         IN  [zeroed EXCEPT ![Len(m)] = lastChar]

\* The validation test without its core clause.
MissingParams_NoCoreCheck(c, b, p, cpn) ==
    b = NULL \/ p = NULL

\* The validation test insisting on a core path.
MissingParams_RequiresCore(c, b, p, cpn) ==
    b = NULL \/ p = NULL \/ c = NULL

\* The test of the "missing configuration params" throw.
MissingParams(c, b, p, cpn) ==
    b = NULL \/ p = NULL \/ (c = NULL /\ cpn = NULL)

\* args[] of initCore.
initCoreArgs(cpn) == <<"core", cpn.s>>

\* setUser accepting every result.
setUserReturns_Any(res) == TRUE

\* setUser returns (instead of throwing) for these results.
setUserReturns(res) == res = Security_setUser_PERMISSION \/ res = 0

\* An object made in allocator a is live from then on.
Allocator_malloc(h, o, a) == h \cup {[obj |-> o, alloc |-> a]}

\* The objects of a heap.
Objects(h) == {x.obj : x \in h}

\* A pipe whose send keeps nothing alive.
Pipe_sendHolds_Nothing(write) == {}

\* What a pipe's pending write keeps alive: the send takes over the message
\* it is given, which then lives until the pipe has written it.
Pipe_sendHolds(write) == IF write = "pending" THEN {"coreResponse"} ELSE {}

\* Allocator_free(a): everything made in a is released, except what another
\* owner still holds.
Allocator_free(h, a, held) == {x \in h : x.alloc # a \/ x.obj \in held}

\* Except_throw with no handler installed (eh is NULL): the process aborts.
Throw == pc' = "exited" /\ exitKind' = "throw" /\ throwSite' = pc

----------------------------------------------------------------------------
(* Initial state: AngelInit_main has been entered.                         *)

InitRest ==
    /\ pc = "getClientPipe"
    /\ exitKind = "none"
    /\ throwSite = "none"
    /\ clientPipe = NULL
    /\ clientPipesMade = 0
    /\ clientOnClose = "none"
    /\ clientState = "connected"
    /\ clientIn = <<>>
    /\ clientNotices = 0
    /\ closeSeen = FALSE
    /\ preConf = NoMsg
    /\ config = NULL
    /\ core = NULL /\ bind = NULL /\ pass = NULL /\ user = NULL
    /\ corePipeName = NULL
    /\ namesGenerated = 0
    /\ corePipe = NULL
    /\ corePipeLog = <<>>
    /\ coreOnClose = "none"
    /\ spawnLog = <<>>
    /\ fopenLog = <<>>
    /\ coreState = "none"
    /\ coreIn = <<>>
    /\ coreWrote = <<>>
    /\ toCore = <<>>
    /\ waitReturned = NoMsg
    /\ coreResponse = NoMsg
    /\ toClient = <<>>
    /\ setUserLog = <<>>
    /\ angelStarts = 0
    /\ heap = {}
    /\ tempAllocFrees = 0
    /\ clientWrite = "none"
    /\ writeLog = <<>>

Init ==
    /\ logKeys \in BOOLEAN
    /\ argv \in SpecArgvs
    /\ InitRest

\* Every startup argument vector, for the checks of getClientPipe alone.
ArgInit ==
    /\ logKeys = FALSE
    /\ argv \in AllArgvs
    /\ InitRest

exitVars == <<exitKind, throwSite>>
clientVars == <<clientState, clientIn, clientNotices, closeSeen>>
confVars == <<preConf, config, core, bind, pass, user, corePipeName, namesGenerated>>
coreEnvVars == <<coreState, coreIn, coreWrote>>
provVars == <<corePipe, corePipeLog, coreOnClose, spawnLog, fopenLog>>
clientEnd == <<clientPipe, clientPipesMade, clientOnClose>>
relayVars == <<toCore, waitReturned, coreResponse, toClient, setUserLog, angelStarts>>
fixedVars == <<logKeys, argv>>
memRest == <<tempAllocFrees, clientWrite, writeLog>>
memVars == <<heap, memRest>>

----------------------------------------------------------------------------
(* The environment: the client and the core.                               *)

\* The client writes its pre-configuration, once.
ClientSends ==
    /\ clientState = "connected"
    /\ clientIn = <<>> /\ preConf = NoMsg
    /\ \E m \in ClientMessages : clientIn' = <<m>>
    /\ UNCHANGED <<pc, exitVars, fixedVars, memVars, clientEnd, clientState,
                   clientNotices, closeSeen, confVars, coreEnvVars, provVars, relayVars>>

\* The client closes its end.
ClientCloses ==
    /\ clientState = "connected"
    /\ clientState' = "closed"
    /\ UNCHANGED <<pc, exitVars, fixedVars, memVars, clientEnd, clientIn,
                   clientNotices, closeSeen, confVars, coreEnvVars, provVars, relayVars>>

\* A core that was not spawned by the angel connects to the core pipe.
CoreAttaches ==
    /\ corePipe # NULL /\ core = NULL
    /\ coreState = "none"
    /\ coreState' = "alive"
    /\ UNCHANGED <<pc, exitVars, fixedVars, memVars, clientEnd, clientVars,
                   confVars, coreIn, coreWrote, provVars, relayVars>>

\* The core writes one framed message.
CoreWrites ==
    /\ coreState = "alive"
    /\ Len(coreWrote) < MaxCoreMsgs
    /\ \E m \in Replies :
          /\ coreIn' = Append(coreIn, m)
          /\ coreWrote' = Append(coreWrote, m)
    /\ UNCHANGED <<pc, exitVars, fixedVars, memVars, clientEnd, clientVars,
                   confVars, coreState, provVars, relayVars>>

\* The core terminates.
CoreTerminates ==
    /\ coreState = "alive"
    /\ coreState' = "dead"
    /\ UNCHANGED <<pc, exitVars, fixedVars, memVars, clientEnd, clientVars,
                   confVars, coreIn, coreWrote, provVars, relayVars>>

----------------------------------------------------------------------------
(* Callbacks dispatched by the event loop.                                 *)

\* The core pipe's close event is ready: the peer is gone and everything it
\* wrote has been read (a stream delivers data before end-of-file).
CorePipeClosePending ==
    /\ corePipe # NULL
    /\ coreOnClose = "coreDied"
    /\ coreState = "dead"
    /\ (pc = "waitCore" => coreIn = <<>>)

\* coreDied exiting with status 0.
coreDied_Exit0 ==
    /\ pc \in LoopPcs
    /\ CorePipeClosePending
    /\ pc' = "exited" /\ exitKind' = "return0"
    /\ UNCHANGED <<throwSite, fixedVars, memVars, clientEnd, clientVars,
                   confVars, coreEnvVars, provVars, relayVars>>

\* corePipe->onClose
coreDied ==
    /\ pc \in LoopPcs
    /\ CorePipeClosePending
    /\ pc' = "exited" /\ exitKind' = "exit1"
    /\ UNCHANGED <<throwSite, fixedVars, memVars, clientEnd, clientVars, confVars,
                   coreEnvVars, provVars, relayVars>>

\* The client pipe's close event is ready, and fires once.
ClientPipeClosePending ==
    /\ clientPipe # NULL
    /\ clientOnClose = "clientDisconnected"
    /\ clientState = "closed"
    /\ clientIn = <<>>
    /\ ~closeSeen

\* A close callback that ends the process, as coreDied does.
clientDisconnected_Exits ==
    /\ pc \in LoopPcs
    /\ ClientPipeClosePending
    /\ clientNotices' = clientNotices + 1
    /\ closeSeen' = TRUE
    /\ pc' = "exited" /\ exitKind' = "exit1"
    /\ UNCHANGED <<throwSite, fixedVars, memVars, clientEnd, clientState,
                   clientIn, confVars, coreEnvVars, provVars, relayVars>>

\* clientPipe->onClose
clientDisconnected ==
    /\ pc \in LoopPcs
    /\ ClientPipeClosePending
    /\ clientNotices' = clientNotices + 1
    /\ closeSeen' = TRUE
    /\ UNCHANGED <<pc, exitVars, fixedVars, memVars, clientEnd, clientState,
                   clientIn, confVars, coreEnvVars, provVars, relayVars>>

\* The event loop lets the client pipe perform the write it was left with.
\* The message goes with it if its allocator has been freed meanwhile.
ClientPipeWrites ==
    /\ pc \in LoopPcs
    /\ clientWrite = "pending"
    /\ clientWrite' = "done"
    /\ writeLog' = Append(writeLog,
           [bytes |-> BytesOf(coreResponse),
            live |-> "coreResponse" \in Objects(heap),
            freed |-> tempAllocFrees])
    /\ heap' = IF tempAllocFrees > 0
               THEN Allocator_free(heap, "tempAlloc", {})
               ELSE heap
    /\ UNCHANGED <<pc, exitVars, fixedVars, tempAllocFrees, clientEnd, clientVars,
                   confVars, coreEnvVars, provVars, relayVars>>

----------------------------------------------------------------------------
(* The statements of AngelInit_main.                                       *)

\* clientPipe = getClientPipe(...); the pipe constructors may throw.
GetClientPipe ==
    /\ pc = "getClientPipe"
    /\ \/ /\ clientPipe' = getClientPipe(argv)
          /\ clientPipesMade' = clientPipesMade + 1
          /\ clientOnClose' = "clientDisconnected"
          /\ heap' = Allocator_malloc(heap, "clientPipe", "alloc")
          /\ pc' = "waitClient"
          /\ UNCHANGED exitVars
       \/ /\ Throw
          /\ UNCHANGED <<clientEnd, heap>>
    /\ UNCHANGED <<fixedVars, memRest, clientVars, confVars, coreEnvVars, provVars, relayVars>>

\* A wait that gives up when nothing has arrived.
InterfaceWaiter_waitForData_TimesOut(queue) ==
    IF queue = <<>>
    THEN {[timedOut |-> TRUE]}
    ELSE {[timedOut |-> FALSE, msg |-> Msg(Head(queue)), rest |-> Tail(queue)]}

\* InterfaceWaiter_waitForData: the ways the wait can end, given what the
\* peer has written.  It runs the event loop until one message has been
\* decoded and returns that message; there is no timeout, so with nothing
\* written there is no way for it to end.
InterfaceWaiter_waitForData(queue) ==
    IF queue = <<>>
    THEN {}
    ELSE {[timedOut |-> FALSE, msg |-> Msg(Head(queue)), rest |-> Tail(queue)]}

\* preConf = InterfaceWaiter_waitForData(&clientPipe->iface, ...)
WaitForClient ==
    /\ pc = "waitClient"
    /\ \E r \in InterfaceWaiter_waitForData(clientIn) :
          IF r.timedOut
          THEN Throw /\ UNCHANGED <<preConf, clientIn, heap>>
          ELSE /\ preConf' = r.msg
               /\ clientIn' = r.rest
               /\ heap' = Allocator_malloc(heap, "preConf", "alloc")
               /\ pc' = "readConfig"
               /\ UNCHANGED exitVars
    /\ UNCHANGED <<fixedVars, memRest, clientEnd, clientState,
                   clientNotices, closeSeen, config, core, bind, pass, user,
                   corePipeName, namesGenerated, coreEnvVars, provVars, relayVars>>

\* BencMessageReader_read, the five lookups and the validation.
ReadConfig ==
    /\ pc = "readConfig"
    /\ LET conf  == BencMessageReader_read(BytesOf(preConf))
           admin == Dict_getDict(conf, "admin")
           c     == Dict_getString(admin, "core")
           b     == Dict_getString(admin, "bind")
           p     == Dict_getString(admin, "pass")
           u     == Dict_getString(admin, "user")
           cpn   == Dict_getString(admin, "corePipeName")
       IN  IF conf = NULL
           THEN /\ Throw
                /\ UNCHANGED <<config, core, bind, pass, user, corePipeName, heap>>
           ELSE /\ config' = conf
                /\ heap' = Allocator_malloc(heap, "config", "tempAlloc")
                /\ core' = c /\ bind' = b /\ pass' = p /\ user' = u
                /\ corePipeName' = cpn
                /\ IF MissingParams(c, b, p, cpn)
                   THEN Throw
                   ELSE pc' = "resolveName" /\ UNCHANGED exitVars
    /\ UNCHANGED <<fixedVars, memRest, clientEnd, clientVars, preConf,
                   namesGenerated, coreEnvVars, provVars, relayVars>>

\* ResolveName generating a name whether or not one was supplied.
ResolveName_Always ==
    /\ pc = "resolveName"
    /\ \E n \in GenNames :
          /\ corePipeName' = StrV(n)
          /\ namesGenerated' = namesGenerated + 1
          /\ heap' = Allocator_malloc(heap, "corePipeName", "tempAlloc")
    /\ pc' = "openCorePipe"
    /\ UNCHANGED <<exitVars, fixedVars, memRest, clientEnd, clientVars,
                   preConf, config, core, bind, pass, user, coreEnvVars, provVars,
                   relayVars>>

\* if (!corePipeName) { Random_base32(...); corePipeName = String_new(...); }
ResolveName ==
    /\ pc = "resolveName"
    /\ IF corePipeName = NULL
       THEN \E n \in GenNames :
               /\ corePipeName' = StrV(n)
               /\ namesGenerated' = namesGenerated + 1
               /\ heap' = Allocator_malloc(heap, "corePipeName", "tempAlloc")
       ELSE UNCHANGED <<corePipeName, namesGenerated, heap>>
    /\ pc' = "openCorePipe"
    /\ UNCHANGED <<exitVars, fixedVars, memRest, clientEnd, clientVars,
                   preConf, config, core, bind, pass, user, coreEnvVars, provVars,
                   relayVars>>

\* OpenCorePipe leaving corePipe->onClose unset.
OpenCorePipe_NoOnClose ==
    /\ pc = "openCorePipe"
    /\ \/ /\ corePipe' = Pipe_named(corePipeName.s)
          /\ corePipeLog' = Append(corePipeLog, Pipe_named(corePipeName.s))
          /\ heap' = Allocator_malloc(Allocator_malloc(heap, "corePipe", "alloc"),
                                       "coreIface", "alloc")
          /\ pc' = "initCore"
          /\ UNCHANGED <<exitVars, coreOnClose>>
       \/ /\ Throw
          /\ UNCHANGED <<corePipe, corePipeLog, coreOnClose, heap>>
    /\ UNCHANGED <<fixedVars, memRest, clientEnd, clientVars, confVars,
                   coreEnvVars, spawnLog, fopenLog, relayVars>>

\* corePipe = Pipe_named(corePipeName->bytes, ...); onClose = coreDied;
\* coreIface = FramingIface_new(...).  Pipe_named may throw.
OpenCorePipe ==
    /\ pc = "openCorePipe"
    /\ \/ /\ corePipe' = Pipe_named(corePipeName.s)
          /\ corePipeLog' = Append(corePipeLog, Pipe_named(corePipeName.s))
          /\ coreOnClose' = "coreDied"
          /\ heap' = Allocator_malloc(Allocator_malloc(heap, "corePipe", "alloc"),
                                       "coreIface", "alloc")
          /\ pc' = "initCore"
          /\ UNCHANGED exitVars
       \/ /\ Throw
          /\ UNCHANGED <<corePipe, corePipeLog, coreOnClose, heap>>
    /\ UNCHANGED <<fixedVars, memRest, clientEnd, clientVars, confVars,
                   coreEnvVars, spawnLog, fopenLog, relayVars>>

\* initCore calling Process_spawn although fopen() failed.
InitCore_SpawnsUnopened ==
    /\ pc = "initCore"
    /\ IF core = NULL
       THEN /\ pc' = "sendConfig"
            /\ UNCHANGED <<exitVars, spawnLog, fopenLog, coreState>>
       ELSE \E opened \in BOOLEAN :
            /\ fopenLog' = Append(fopenLog, [path |-> core.s, opened |-> opened])
            /\ \/ /\ spawnLog' = Append(spawnLog,
                         [path |-> core.s, args |-> initCoreArgs(corePipeName),
                          failed |-> TRUE])
                  /\ Throw
                  /\ UNCHANGED coreState
               \/ /\ spawnLog' = Append(spawnLog,
                         [path |-> core.s, args |-> initCoreArgs(corePipeName),
                          failed |-> FALSE])
                  /\ coreState' = "alive"
                  /\ pc' = "sendConfig"
                  /\ UNCHANGED exitVars
    /\ UNCHANGED <<fixedVars, memVars, clientEnd, clientVars, confVars,
                   coreIn, coreWrote, corePipe, corePipeLog, coreOnClose, relayVars>>

\* if (core) { initCore(core->bytes, corePipeName, ...); }
InitCore ==
    /\ pc = "initCore"
    /\ IF core = NULL
       THEN /\ pc' = "sendConfig"
            /\ UNCHANGED <<exitVars, spawnLog, fopenLog, coreState>>
       ELSE \/ \* fopen() returned NULL
               /\ fopenLog' = Append(fopenLog, [path |-> core.s, opened |-> FALSE])
               /\ Throw
               /\ UNCHANGED <<spawnLog, coreState>>
            \/ \* Process_spawn() returned non-zero
               /\ fopenLog' = Append(fopenLog, [path |-> core.s, opened |-> TRUE])
               /\ spawnLog' = Append(spawnLog,
                      [path |-> core.s, args |-> initCoreArgs(corePipeName),
                       failed |-> TRUE])
               /\ Throw
               /\ UNCHANGED coreState
            \/ \* Process_spawn() returned 0
               /\ fopenLog' = Append(fopenLog, [path |-> core.s, opened |-> TRUE])
               /\ spawnLog' = Append(spawnLog,
                      [path |-> core.s, args |-> initCoreArgs(corePipeName),
                       failed |-> FALSE])
               /\ coreState' = "alive"
               /\ pc' = "sendConfig"
               /\ UNCHANGED exitVars
    /\ UNCHANGED <<fixedVars, memVars, clientEnd, clientVars, confVars,
                   coreIn, coreWrote, corePipe, corePipeLog, coreOnClose, relayVars>>

\* SendConfig forwarding the admin section only.
SendConfig_AdminOnly ==
    /\ pc = "sendConfig"
    /\ toCore' = Append(toCore, BencMessageWriter_write(Dict_getDict(config, "admin")))
    /\ heap' = Allocator_malloc(heap, "msg", "tempAlloc")
    /\ pc' = "waitCore"
    /\ UNCHANGED <<exitVars, fixedVars, memRest, clientEnd, clientVars,
                   confVars, coreEnvVars, provVars, waitReturned, coreResponse,
                   toClient, setUserLog, angelStarts>>

\* BencMessageWriter_write(config, msg, eh); Iface_CALL(coreIface->send, msg, coreIface)
SendConfig ==
    /\ pc = "sendConfig"
    /\ toCore' = Append(toCore, BencMessageWriter_write(config))
    /\ heap' = Allocator_malloc(heap, "msg", "tempAlloc")
    /\ pc' = "waitCore"
    /\ UNCHANGED <<exitVars, fixedVars, memRest, clientEnd, clientVars,
                   confVars, coreEnvVars, provVars, waitReturned, coreResponse,
                   toClient, setUserLog, angelStarts>>

\* coreResponse = InterfaceWaiter_waitForData(coreIface, ...)
WaitForCore ==
    /\ pc = "waitCore"
    /\ \E r \in InterfaceWaiter_waitForData(coreIn) :
          IF r.timedOut
          THEN Throw /\ UNCHANGED <<waitReturned, coreResponse, coreIn, heap>>
          ELSE /\ waitReturned' = r.msg
               /\ coreResponse' = r.msg
               /\ coreIn' = r.rest
               /\ heap' = Allocator_malloc(heap, "coreResponse", "tempAlloc")
               /\ pc' = "relay"
               /\ UNCHANGED exitVars
    /\ UNCHANGED <<fixedVars, memRest, clientEnd, clientVars,
                   confVars, coreState, coreWrote, provVars, toCore, toClient,
                   setUserLog, angelStarts>>

\* RelayToClient going back to wait for a further reply.
RelayToClient_WaitsAgain ==
    /\ pc = "relay"
    /\ toClient' = Append(toClient, BytesOf(coreResponse))
    /\ \/ \* the pipe writes the message at once
          /\ clientWrite' = "done"
          /\ writeLog' = Append(writeLog,
                 [bytes |-> BytesOf(coreResponse),
                  live |-> "coreResponse" \in Objects(heap),
                  freed |-> tempAllocFrees])
       \/ \* the write is left to the event loop
          /\ clientWrite' = "pending"
          /\ UNCHANGED writeLog
    /\ pc' = "waitCore"
    /\ UNCHANGED <<exitVars, fixedVars, heap, tempAllocFrees, clientEnd, clientVars,
                   confVars, coreEnvVars, provVars, toCore, waitReturned, coreResponse,
                   setUserLog, angelStarts>>

\* RelayToClient handing the response to the client's send twice.
RelayToClient_Twice ==
    /\ pc = "relay"
    /\ LET buf == IF logKeys THEN LogKeysBlock(BytesOf(coreResponse))
                  ELSE BytesOf(coreResponse)
       IN  /\ coreResponse' = Msg(buf)
           /\ toClient' = Append(Append(toClient, buf), buf)
    /\ \/ \* the pipe writes the message at once
          /\ clientWrite' = "done"
          /\ writeLog' = Append(writeLog,
                 [bytes |-> BytesOf(coreResponse),
                  live |-> "coreResponse" \in Objects(heap),
                  freed |-> tempAllocFrees])
       \/ \* the write is left to the event loop
          /\ clientWrite' = "pending"
          /\ UNCHANGED writeLog
    /\ pc' = "setUser"
    /\ UNCHANGED <<exitVars, fixedVars, heap, tempAllocFrees, clientEnd, clientVars,
                   confVars, coreEnvVars, provVars, toCore, waitReturned, setUserLog,
                   angelStarts>>

\* Iface_CALL(clientPipe->iface.send, coreResponse, ...) and the Log_KEYS block.
\* The send keeps the buffer, so what the block leaves in it is what is sent.
RelayToClient ==
    /\ pc = "relay"
    /\ LET buf == IF logKeys THEN LogKeysBlock(BytesOf(coreResponse))
                  ELSE BytesOf(coreResponse)
       IN  /\ coreResponse' = Msg(buf)
           /\ toClient' = Append(toClient, buf)
    /\ \/ \* the pipe writes the message at once
          /\ clientWrite' = "done"
          /\ writeLog' = Append(writeLog,
                 [bytes |-> BytesOf(coreResponse),
                  live |-> "coreResponse" \in Objects(heap),
                  freed |-> tempAllocFrees])
       \/ \* the write is left to the event loop
          /\ clientWrite' = "pending"
          /\ UNCHANGED writeLog
    /\ pc' = "setUser"
    /\ UNCHANGED <<exitVars, fixedVars, heap, tempAllocFrees, clientEnd, clientVars,
                   confVars, coreEnvVars, provVars, toCore, waitReturned, setUserLog,
                   angelStarts>>

\* if (user) { setUser(user->bytes, logger, eh); }
SetUser ==
    /\ pc = "setUser"
    /\ IF user = NULL
       THEN /\ pc' = "handoff"
            /\ UNCHANGED <<exitVars, setUserLog>>
       ELSE \/ \E res \in SetUserResults :
                 /\ setUserLog' = Append(setUserLog,
                                   [user |-> user.s, threw |-> FALSE, res |-> res])
                 /\ IF setUserReturns(res)
                    THEN pc' = "handoff" /\ UNCHANGED exitVars
                    ELSE Throw
            \/ \* Security_setUser() itself throws
               /\ setUserLog' = Append(setUserLog,
                                   [user |-> user.s, threw |-> TRUE, res |-> 0])
               /\ Throw
    /\ UNCHANGED <<fixedVars, memVars, clientEnd, clientVars, confVars,
                   coreEnvVars, provVars, toCore, waitReturned, coreResponse, toClient,
                   angelStarts>>

\* Allocator_free(tempAlloc); Angel_start(coreIface, eventBase, logger, alloc)
Handoff ==
    /\ pc = "handoff"
    /\ heap' = Allocator_free(heap, "tempAlloc", Pipe_sendHolds(clientWrite))
    /\ tempAllocFrees' = tempAllocFrees + 1
    /\ angelStarts' = angelStarts + 1
    /\ pc' = "angelRunning"
    /\ UNCHANGED <<exitVars, fixedVars, clientWrite, writeLog, clientEnd, clientVars,
                   confVars, coreEnvVars, provVars, toCore, waitReturned, coreResponse,
                   toClient, setUserLog>>

\* Angel_start returns; return 0
AngelStartReturns ==
    /\ pc = "angelRunning"
    /\ pc' = "exited" /\ exitKind' = "return0"
    /\ UNCHANGED <<throwSite, fixedVars, memVars, clientEnd, clientVars, confVars,
                   coreEnvVars, provVars, relayVars>>

----------------------------------------------------------------------------
Environment ==
    \/ ClientSends
    \/ ClientCloses
    \/ CoreAttaches
    \/ CoreWrites
    \/ CoreTerminates

Callbacks ==
    \/ coreDied
    \/ clientDisconnected

EventLoop ==
    \/ ClientPipeWrites

AngelInit_main ==
    \/ GetClientPipe
    \/ WaitForClient
    \/ ReadConfig
    \/ ResolveName
    \/ OpenCorePipe
    \/ InitCore
    \/ SendConfig
    \/ WaitForCore
    \/ RelayToClient
    \/ SetUser
    \/ Handoff
    \/ AngelStartReturns

Next == Environment \/ Callbacks \/ EventLoop \/ AngelInit_main

Spec == Init /\ [][Next]_vars

\* Straight-line code runs on; a wait returns once its message is there.
Statements ==
    \/ GetClientPipe
    \/ WaitForClient
    \/ ReadConfig
    \/ ResolveName
    \/ OpenCorePipe
    \/ InitCore
    \/ SendConfig
    \/ WaitForCore
    \/ RelayToClient
    \/ SetUser
    \/ Handoff

\* The event loop dispatches a ready close event; the peers owe nothing.
FairSpec == Spec /\ WF_vars(Statements) /\ WF_vars(coreDied)

ArgNext == GetClientPipe

ArgSpec == ArgInit /\ [][ArgNext]_vars

----------------------------------------------------------------------------
(* What a configuration contains, read off the tree itself.                *)

AdminOf(conf) ==
    IF conf # NULL /\ "admin" \in DOMAIN conf.d /\ conf.d["admin"].t = "dict"
    THEN conf.d["admin"].d
    ELSE [k \in {} |-> NULL]

HasString(conf, key) ==
    key \in DOMAIN AdminOf(conf) /\ AdminOf(conf)[key].t = "string"

HasDescriptorPair(conf) ==
    /\ "core" \in DOMAIN AdminOf(conf)
    /\ AdminOf(conf)["core"].t = "dict"
    /\ {"fromCore", "toCore"} \subseteq DOMAIN AdminOf(conf)["core"].d

\* The handshake states of the design, in order.
PhaseOf(p) ==
    CASE p \in {"getClientPipe", "waitClient", "readConfig"}   -> 1
      [] p \in {"resolveName", "openCorePipe", "initCore"}     -> 2
      [] p \in {"sendConfig", "waitCore"}                      -> 3
      [] p = "relay"                                           -> 4
      [] p = "setUser"                                         -> 5
      [] p \in {"handoff", "angelRunning"}                     -> 6
      [] p = "exited"                                          -> 7

----------------------------------------------------------------------------
(* C1: every message handed to the client's send is the message the wait   *)
(* on the core's framed interface returned, byte for byte and of the same  *)
(* length, whatever the core replied and whether or not Log_KEYS is built. *)
C1_RelayVerbatim ==
    \A i \in 1..Len(toClient) :
        /\ waitReturned # NoMsg
        /\ toClient[i] = BytesOf(waitReturned)
        /\ Len(toClient[i]) = Len(BytesOf(waitReturned))

C1_Witness ==
    /\ logKeys
    /\ Len(toClient) = 1
    /\ Len(toClient[1]) > 0
    /\ toClient[1][Len(toClient[1])] # 0

(* C2: a run that has ended with a valid config (bind, pass and a core     *)
(* path or a descriptor pair), a core that did not die and no pipe, spawn  *)
(* or privilege-drop failure has reached HandedOff (Angel_start called).   *)
C2_ValidConfigReachesHandoff ==
    ( /\ pc = "exited"
      /\ HasString(config, "bind") /\ HasString(config, "pass")
      /\ (HasString(config, "core") \/ HasDescriptorPair(config))
      /\ coreState # "dead"
      /\ throwSite \notin {"openCorePipe", "initCore", "setUser"} )
    => angelStarts = 1

C4_AsStated == [][coreState = "dead" => toClient' = toClient]_vars

\* The core is gone and has left no unread reply, and the angel is sending
\* the config or waiting for the reply.
CoreGoneUnanswered ==
    /\ coreState = "dead"
    /\ coreIn = <<>>
    /\ pc \in {"sendConfig", "waitCore"}

(* C4 amended: a core that terminates leaving no unread reply while the    *)
(* angel sends the config or waits for the reply makes the angel exit with *)
(* status 1 from its event loop, with no client send from then on; a core  *)
(* that dies before writing anything is never followed by a client send;   *)
(* status 1 is only ever the exit of coreDied on a dead core.  A death     *)
(* after the reply was written is not noticed before the event loop runs   *)
(* again, so the reply may still be relayed.                               *)
C4_CoreDeath ==
    /\ [](coreState = "dead" /\ coreWrote = <<>> => toClient = <<>>)
    /\ [](exitKind = "exit1" => coreState = "dead" /\ corePipe # NULL)
    /\ [](pc = "exited" /\ coreState = "dead" /\ toCore # <<>> /\ waitReturned = NoMsg
            => exitKind = "exit1" /\ toClient = <<>>)
    /\ [][CoreGoneUnanswered => toClient' = toClient /\ (CoreGoneUnanswered' \/ pc' = "exited")]_vars
    /\ (CoreGoneUnanswered ~> (exitKind = "exit1" /\ toClient = <<>>))

C4_Witness ==
    /\ exitKind = "exit1"
    /\ spawnLog # <<>>
    /\ coreWrote = <<>>
    /\ toCore # <<>>

(* C5: a supplied corePipeName is the name the core pipe is opened under   *)
(* and no name is generated; without one, exactly one name is generated;   *)
(* the name the pipe was opened under is the one passed to the spawned     *)
(* core, and pipe and name stay what they were when the pipe was opened.   *)
C5_PipeNameConsistent ==
    /\ namesGenerated <= 1
    /\ Len(corePipeLog) <= 1
    /\ HasString(config, "corePipeName") =>
          /\ namesGenerated = 0
          /\ \A i \in 1..Len(corePipeLog) :
                corePipeLog[i] = Pipe_named(AdminOf(config)["corePipeName"].s)
    /\ (corePipe # NULL /\ ~HasString(config, "corePipeName")) => namesGenerated = 1
    /\ corePipe # NULL =>
          /\ corePipeLog = <<corePipe>>
          /\ corePipe.kind = "named"
          /\ corePipeName # NULL /\ corePipe.name = corePipeName.s
    /\ \A i \in 1..Len(spawnLog) :
          /\ corePipe # NULL
          /\ spawnLog[i].args = <<"core", corePipe.name>>

C5_Witness ==
    /\ HasString(config, "corePipeName")
    /\ spawnLog # <<>>
    /\ coreState = "alive"
    /\ pc = "angelRunning"

(* C6: with core given as {fromCore, toCore}, the core endpoint is built   *)
(* on those two descriptors and nothing is spawned.                        *)
C6_DescriptorPairMode ==
    (HasDescriptorPair(config) /\ corePipe # NULL) =>
        /\ corePipe = Pipe_forFiles(AdminOf(config)["core"].d["fromCore"].n,
                                    AdminOf(config)["core"].d["toCore"].n)
        /\ spawnLog = <<>>

(* C7: Security_setUser is called only when the config names a user, and   *)
(* is called once the run gets past PrivilegeDrop if it does; after a      *)
(* result of 0 or PERMISSION the run goes on to HandedOff, after any other *)
(* result the process has been aborted and Angel_start is never called.    *)
C7_PrivilegeDrop ==
    /\ Len(setUserLog) <= 1
    /\ setUserLog # <<>> =>
          /\ HasString(config, "user")
          /\ setUserLog[1].user = AdminOf(config)["user"].s
    /\ (pc \in {"handoff", "angelRunning"} \/ angelStarts > 0) =>
          (HasString(config, "user") <=> setUserLog # <<>>)
    /\ (setUserLog # <<>> /\ ~setUserLog[1].threw) =>
          IF setUserLog[1].res \in {0, Security_setUser_PERMISSION}
          THEN /\ throwSite = "none"
               /\ pc \in {"handoff", "angelRunning", "exited"}
               /\ pc = "exited" => angelStarts = 1
          ELSE /\ pc = "exited" /\ exitKind = "throw" /\ throwSite = "setUser"
               /\ angelStarts = 0

C7_Witness ==
    /\ setUserLog # <<>>
    /\ ~setUserLog[1].threw
    /\ setUserLog[1].res = Security_setUser_PERMISSION
    /\ angelStarts = 1

(* C8: what is sent to the core is one message, the encoding of the whole  *)
(* config decoded from the client's message, every key of every level; it  *)
(* is sent before the wait for the core's reply starts and nothing else is *)
(* sent to the core during the handshake.                                  *)
C8_WholeConfigForwarded ==
    /\ Len(toCore) <= 1
    /\ toCore # <<>> =>
          /\ preConf # NoMsg
          /\ config = BencMessageReader_read(BytesOf(preConf))
          /\ BencMessageReader_read(toCore[1]) = config
          /\ DOMAIN BencMessageReader_read(toCore[1]).d = DOMAIN config.d
          /\ DOMAIN AdminOf(BencMessageReader_read(toCore[1])) = DOMAIN AdminOf(config)
    /\ (pc \in {"waitCore", "relay", "setUser", "handoff", "angelRunning"}
          \/ waitReturned # NoMsg) => Len(toCore) = 1
    /\ PhaseOf(pc) \in {1, 2} => toCore = <<>>

C8_Witness ==
    /\ pc = "waitCore"
    /\ Len(toCore) = 1
    /\ "router" \in DOMAIN config.d
    /\ HasString(config, "zzz")
    /\ HasString(config, "core")

\* What has been done when a handshake state is complete.
ClientConfigDone == config # NULL /\ ~MissingParams(core, bind, pass, corePipeName)
ProvisioningDone == ClientConfigDone /\ corePipe # NULL /\ (core # NULL => spawnLog # <<>>)
CoreReplyDone    == ProvisioningDone /\ Len(toCore) = 1 /\ waitReturned # NoMsg
RelayDone        == CoreReplyDone /\ Len(toClient) = 1
PrivilegeDone    == RelayDone /\ (user # NULL => setUserLog # <<>>)

(* C9: the handshake states are entered in their order, each after its     *)
(* predecessor completed and none twice; a step either stays in the state, *)
(* enters the next one or ends the process; Angel_start is called at most  *)
(* once, and a return with status 0 comes only after that call.            *)
C9_StateOrder ==
    /\ [][\/ PhaseOf(pc') = PhaseOf(pc)
          \/ PhaseOf(pc') = PhaseOf(pc) + 1
          \/ pc' = "exited"]_vars
    /\ [][pc = "exited" => pc' = "exited" /\ exitKind' = exitKind]_vars
    /\ [](PhaseOf(pc) = 2 => ClientConfigDone)
    /\ [](PhaseOf(pc) = 3 => ProvisioningDone)
    /\ [](PhaseOf(pc) = 4 => CoreReplyDone /\ toClient = <<>>)
    /\ [](PhaseOf(pc) = 5 => RelayDone /\ setUserLog = <<>>)
    /\ [](PhaseOf(pc) = 6 => PrivilegeDone)
    /\ [](pc = "handoff" => angelStarts = 0)
    /\ [](angelStarts <= 1)
    /\ [](angelStarts = 1 => pc \in {"angelRunning", "exited"} /\ PrivilegeDone)
    /\ [](exitKind = "return0" => angelStarts = 1 /\ pc = "exited")
    /\ [](pc = "exited" <=> exitKind # "none")

C9_Witness ==
    /\ exitKind = "return0"
    /\ angelStarts = 1
    /\ setUserLog # <<>>
    /\ spawnLog # <<>>

\* An argument that is a decimal numeral.
IsNumeral(s) == Len(s) > 0 /\ \A i \in 1..Len(s) : IsDigit(s[i])
PairGiven(av) == argc(av) >= 4 /\ IsNumeral(Arg(av, 2)) /\ IsNumeral(Arg(av, 3))

(* C10 as stated: a descriptor pair gives an endpoint on exactly those two *)
(* descriptors, otherwise a further argument names a pipe, otherwise       *)
(* standard input and output are used; one endpoint is created.            *)
C10_AsStated ==
    clientPipe # NULL =>
        /\ clientPipesMade = 1
        /\ PairGiven(argv) =>
              clientPipe = Pipe_forFiles(atoi(Arg(argv, 2)), atoi(Arg(argv, 3)))
        /\ (~PairGiven(argv) /\ argc(argv) > 2) => clientPipe = Pipe_named(Arg(argv, 2))
        /\ argc(argv) <= 2 => clientPipe = Pipe_forFiles(STDIN_FILENO, STDOUT_FILENO)

(* C10 amended: with two further arguments of which the first has a        *)
(* nonzero atoi value, the endpoint is on that descriptor and on the       *)
(* second's atoi value, standard output standing in for a value of 0; with *)
(* a further argument otherwise (a single one, or a first one whose atoi   *)
(* value is 0), it is the named pipe of that argument; without further     *)
(* arguments it is standard input and output.  One endpoint is created.    *)
C10_ClientEndpoint ==
    /\ clientPipesMade <= 1
    /\ clientPipe # NULL =>
        /\ clientPipesMade = 1
        /\ (argc(argv) >= 4 /\ atoi(Arg(argv, 2)) # 0) =>
              clientPipe = Pipe_forFiles(atoi(Arg(argv, 2)),
                                         IF atoi(Arg(argv, 3)) = 0 THEN STDOUT_FILENO
                                         ELSE atoi(Arg(argv, 3)))
        /\ (argc(argv) = 3 \/ (argc(argv) >= 4 /\ atoi(Arg(argv, 2)) = 0)) =>
              clientPipe = Pipe_named(Arg(argv, 2))
        /\ argc(argv) <= 2 => clientPipe = Pipe_forFiles(STDIN_FILENO, STDOUT_FILENO)

C10_Witness ==
    /\ clientPipe # NULL
    /\ PairGiven(argv)
    /\ atoi(Arg(argv, 2)) = 0
    /\ clientPipe.kind = "named"

(* C11: when fopen() of the core executable fails, Process_spawn is never  *)
(* called; when fopen() or Process_spawn fails, the process is aborted in  *)
(* initCore with nothing sent to the core and nothing sent to the client.  *)
C11_SpawnFailureClean ==
    /\ Len(fopenLog) <= 1 /\ Len(spawnLog) <= 1
    /\ \A i \in 1..Len(fopenLog) :
          ~fopenLog[i].opened =>
              /\ spawnLog = <<>> /\ coreState = "none"
              /\ pc = "exited" /\ throwSite = "initCore"
              /\ toCore = <<>> /\ toClient = <<>>
    /\ \A i \in 1..Len(spawnLog) :
          /\ fopenLog # <<>> /\ fopenLog[1].opened
          /\ spawnLog[i].failed =>
              /\ coreState = "none"
              /\ pc = "exited" /\ throwSite = "initCore"
              /\ toCore = <<>> /\ toClient = <<>>
    /\ throwSite = "initCore" =>
          /\ fopenLog # <<>>
          /\ ~fopenLog[1].opened \/ (spawnLog # <<>> /\ spawnLog[1].failed)

C11_Witness ==
    /\ throwSite = "initCore"
    /\ fopenLog # <<>> /\ ~fopenLog[1].opened
    /\ spawnLog = <<>>

(* C12: the core pipe is open and coreDied is installed as its close       *)
(* handler before the core executable is opened or spawned; the config is  *)
(* sent to the core only after Process_spawn succeeded, or with no spawn   *)
(* when core is not a string; a spawned core never exists beside an        *)
(* unopened pipe or an unobserved one.                                     *)
C12_ProvisioningOrder ==
    /\ (fopenLog # <<>> \/ spawnLog # <<>>) =>
          /\ corePipe # NULL /\ corePipeLog = <<corePipe>>
          /\ coreOnClose = "coreDied"
    /\ (spawnLog # <<>> /\ coreState # "none") =>
          /\ corePipe # NULL
          /\ coreOnClose = "coreDied"
    /\ toCore # <<>> =>
          /\ corePipe # NULL /\ coreOnClose = "coreDied"
          /\ IF HasString(config, "core")
             THEN Len(spawnLog) = 1 /\ ~spawnLog[1].failed
             ELSE spawnLog = <<>>
    /\ pc \in {"getClientPipe", "waitClient", "readConfig", "resolveName", "openCorePipe"} =>
          /\ spawnLog = <<>> /\ fopenLog = <<>> /\ coreState = "none" /\ toCore = <<>>

C12_Witness ==
    /\ pc = "sendConfig"
    /\ Len(spawnLog) = 1 /\ ~spawnLog[1].failed
    /\ coreState = "dead"
    /\ toCore = <<>>

\* What a handshake step other than waiting would change.
stepVars == <<config, namesGenerated, corePipe, corePipeLog, fopenLog, spawnLog,
              toCore, toClient, setUserLog, angelStarts>>

(* C13: the wait for the client ends only with the client's message, the   *)
(* wait for the core only with the core's message or with the end of the   *)
(* process; while a wait lasts nothing else of the handshake happens (no   *)
(* pipe, spawn, send, privilege drop or handoff), and with a peer that has *)
(* written nothing the angel stays in the wait.                            *)
C13_WaitsAreBarriers ==
    /\ [][(pc = "waitClient" /\ pc' # "waitClient") =>
             /\ clientIn # <<>>
             /\ pc' = "readConfig"
             /\ preConf' = Msg(Head(clientIn))]_vars
    /\ [][(pc = "waitCore" /\ pc' # "waitCore") =>
             \/ /\ coreIn # <<>>
                /\ pc' = "relay"
                /\ waitReturned' = Msg(Head(coreIn))
             \/ pc' = "exited"]_vars
    /\ [][(pc \in {"waitClient", "waitCore"} /\ pc' = pc) => UNCHANGED stepVars]_vars
    /\ [][(pc = "waitClient" /\ clientIn = <<>>) => pc' = "waitClient"]_vars
    /\ [][(pc = "waitCore" /\ coreIn = <<>>) => pc' \in {"waitCore", "exited"}]_vars

C13_Witness ==
    /\ pc = "waitClient"
    /\ clientState = "closed" /\ closeSeen
    /\ clientIn = <<>> /\ preConf = NoMsg

(* C14: the client's close callback only prints its notice: the step that  *)
(* prints it leaves the position in the handshake, the exit status, both   *)
(* endpoints and their callbacks, the core and its channel, the            *)
(* configuration and everything sent or received as they were, whichever   *)
(* wait (or the handed-off angel) it fires in.                             *)
C14_ClientDisconnectInformational ==
    [][clientNotices' # clientNotices =>
          /\ clientNotices' = clientNotices + 1
          /\ UNCHANGED <<pc, exitVars, clientEnd, clientState, clientIn,
                         confVars, coreEnvVars, provVars, relayVars, memVars>>]_vars

C14_Witness ==
    /\ clientNotices = 1
    /\ pc = "waitCore"
    /\ coreState = "alive" /\ corePipe # NULL

\* The allocations the handshake makes for itself, and those the angel keeps.
HandshakeObjs == {"preConf", "config", "corePipeName", "msg", "coreResponse"}
Survivors == {"clientPipe", "corePipe", "coreIface"}

\* The handshake allocations made so far, read off what the handshake holds.
MadeSoFar ==
    {o \in HandshakeObjs :
        \/ o = "preConf" /\ preConf # NoMsg
        \/ o = "config" /\ config # NULL
        \/ o = "corePipeName" /\ namesGenerated > 0
        \/ o = "msg" /\ toCore # <<>>
        \/ o = "coreResponse" /\ waitReturned # NoMsg}

(* C15: the handshake's allocations (client message, decoded config,       *)
(* generated pipe name, message for the core, core's response) are         *)
(* released once, at the handoff: the release comes after the relay and    *)
(* any privilege drop and with the one call of Angel_start, until then     *)
(* each of them made so far is live, and from then on none of them is,     *)
(* while the two endpoints and the core's framed interface stay live.      *)
C15_HandshakeScopeReleased ==
    /\ tempAllocFrees <= 1
    /\ tempAllocFrees = angelStarts
    /\ tempAllocFrees > 0 => /\ toClient # <<>>
                             /\ user # NULL => setUserLog # <<>>
    /\ tempAllocFrees = 0 => MadeSoFar \subseteq Objects(heap)
    /\ angelStarts > 0 => /\ Objects(heap) \cap HandshakeObjs = {}
                          /\ Survivors \subseteq Objects(heap)

\* The decoded config names bind, pass and corePipeName but no core path.
NoStringCoreConfig ==
    /\ config # NULL
    /\ HasString(config, "bind") /\ HasString(config, "pass")
    /\ HasString(config, "corePipeName")
    /\ ~HasString(config, "core")

\* The statements after core provisioning, while the process lives.
AfterProvisioning ==
    pc \in {"sendConfig", "waitCore", "relay", "setUser", "handoff", "angelRunning"}

C17_OneClientMessage ==
    /\ Len(toClient) <= 1
    /\ Len(writeLog) <= Len(toClient)
    /\ toClient # <<>> => /\ waitReturned # NoMsg
                          /\ coreWrote # <<>>
                          /\ toCore # <<>>
    /\ throwSite \in {"readConfig", "openCorePipe", "initCore"} => toClient = <<>>
    /\ (exitKind = "exit1" /\ waitReturned = NoMsg) => toClient = <<>>
    /\ (coreState = "dead" /\ coreWrote = <<>>) => toClient = <<>>

C17_Witness ==
    /\ Len(toClient) = 1
    /\ clientWrite = "done"
    /\ coreState = "dead"
    /\ exitKind = "exit1"

====
